---- MODULE Spec2Model ----
(***************************************************************************)
(* Artifact pipeline of the Circom kit: the Circuit class                  *)
(* (utils/Circuit.ts), the batch compile script and the clean script       *)
(* (scripts/compile-circuits.ts, scripts/clean-circuits.ts).               *)
(*                                                                         *)
(* The file system is the set of paths that exist.  The external tools     *)
(* (circom2, snarkjs) are the environment: every invocation ends with a    *)
(* spawn error, a non-zero exit status or exit status 0, chosen            *)
(* nondeterministically.  A tool that exits with status 0 has written its  *)
(* output files, and it can exit with status 0 only when its input files   *)
(* exist; the one exception is the compiler, which may also exit with      *)
(* status 0 without having written anything (Circuit.ts re-checks the      *)
(* witness generator after the compiler returns).                          *)
(*                                                                         *)
(* generateProof and verifyProof run in the process of the caller.  Calls  *)
(* of generateProof can overlap (it awaits the prover); each one saves     *)
(* process.stderr.write, installs its filter and puts the saved writer     *)
(* back when the prover settles.  snarkjs is the environment: an honest    *)
(* Groth16 prover for the multiplier circuit, whose proofs the verifier    *)
(* accepts for exactly the public signals they were made for, and which    *)
(* fails when the witness generator or the key file is missing.            *)
(***************************************************************************)
EXTENDS Integers, Sequences, FiniteSets, TLC

VARIABLES
    fs,        \* the set of paths that exist under circuits/build (and the directory itself)
    env,       \* the installation: platform, circom2 and pnpm locations
    srcDirty,  \* per circuit: the .circom source was edited after the last compilation
    pc,        \* per process: position in the constructor / the script
    self,      \* per process: the running activity (kind, circuit name, ptau size, files left)
    ops,       \* per process: the external invocations of the running activity, in order
    fault,     \* per process: the error thrown by the running activity, or NoFault
    fs0,       \* per process: the file system when the running activity started
    pt0,       \* per process: the parameter files seen when the ceremony stage was entered
    last,      \* per circuit: outcome and invocations of the last finished construction
    lastFault, \* failing stage and thrown error of the last construction that failed
    runs,      \* number of activities started
    lastScript, \* outcome and parameter size of the last finished run of the batch
               \* script since the store was last cleaned
    paramRuns, \* invocations of powersoftau new / prepare phase2 by the constructions
               \* since the store was last cleaned or a construction last failed
    stderrWrite, \* process.stderr.write: the generateProof calls whose filters wrap
                 \* the stream's own writer, outermost first
    calls,     \* per generateProof call: position, input, saved writer, outcome
    stderrIn,  \* the chunks passed to process.stderr.write, in order
    stderrOut, \* the chunks that reached the stream's own writer, in order
    lastWrite, \* the last call of process.stderr.write: arguments and outcome
    verified,  \* the last verifyProof call: arguments and outcome
    native,    \* a value resolved by groth16.fullProve
    returned,  \* what lines 253-272 of generateProof make of it
    verifier,  \* Multiplier.verifier: the stored verifier address
    shouldVerify, \* MockVerifier.shouldVerify
    logs,      \* the events emitted by the Multiplier contract, in order
    receipt    \* the last call of Multiplier.check: arguments and outcome

\* the variables of the Multiplier contract and of the verifier it calls
contractSide == <<verifier, shouldVerify, logs, receipt>>

\* the variables of generateProof and verifyProof, and those of the contract
proofSide == <<stderrWrite, calls, stderrIn, stderrOut, lastWrite, verified,
               native, returned, contractSide>>

vars == <<fs, env, srcDirty, pc, self, ops, fault, fs0, pt0, last, lastFault, runs,
          paramRuns, lastScript, proofSide>>

----------------------------------------------------------------------------
(* Bounds *)

\* number of constructions / script runs in one behaviour
MaxRuns == 2

\* the largest non-zero exit status an external tool returns
MaxStatus == 1

----------------------------------------------------------------------------
(* Names and paths *)

Names == {"multiplier2", "adder"}

Procs == {1, 2}

\* Circuit.ts:135
ptauSize == 8

\* compile-circuits.ts:20
PTAU_SIZE(isProd) == IF isProd THEN 14 ELSE 8

PtauSizes == {PTAU_SIZE(TRUE), PTAU_SIZE(FALSE)}

\* join(a, b)
join(a, b) == a \o "/" \o b

buildDir == join("circuits", "build")

wasmPath(n) == join(join(buildDir, n \o "_js"), n \o ".wasm")

zkeyPath(n) == join(buildDir, n \o ".zkey")

r1csPath(n) == join(buildDir, n \o ".r1cs")

symPath(n) == join(buildDir, n \o ".sym")

ptauPath(s) == join(buildDir, "pot" \o ToString(s) \o "_0000.ptau")

ptauPreparedPath(s) == join(buildDir, "pot" \o ToString(s) \o "_0000_final.ptau")

existsSync(files, path) == path \in files

\* mkdirSync(dir, { recursive: true })
mkdirSync(files, dir) == files \cup {dir}

ArtifactPaths ==
    UNION {{wasmPath(n), r1csPath(n), zkeyPath(n)} : n \in Names}
    \cup UNION {{ptauPath(s), ptauPreparedPath(s)} : s \in PtauSizes}

\* the stores a behaviour starts from: any subset of the first circuit's
\* artifacts and of the parameter files, with the second circuit either not
\* built or built
InitialArtifacts ==
    {a \cup b \cup c :
        a \in SUBSET {wasmPath("multiplier2"), r1csPath("multiplier2"),
                      zkeyPath("multiplier2")},
        b \in {{}, {wasmPath("adder"), r1csPath("adder"), zkeyPath("adder")}},
        c \in SUBSET UNION {{ptauPath(s), ptauPreparedPath(s)} : s \in PtauSizes}}

----------------------------------------------------------------------------
(* The installation: where circom2 and pnpm can be found *)

\* process.cwd()
cwd == "/project"

null == "null"

startsWith(str, prefix) ==
    /\ Len(str) >= Len(prefix)
    /\ SubSeq(str, 1, Len(prefix)) = prefix

endsWith(str, suffix) ==
    /\ Len(str) >= Len(suffix)
    /\ SubSeq(str, Len(str) - Len(suffix) + 1, Len(str)) = suffix

pnpmDir == join(join(cwd, "node_modules"), ".pnpm")

topLevelCli == join(join(join(cwd, "node_modules"), "circom2"), "cli.js")

binAlias == join(join(join(cwd, "node_modules"), ".bin"), "circom2")

candidatePath(entry) ==
    join(join(join(join(pnpmDir, entry), "node_modules"), "circom2"), "cli.js")

\* a scan that puts a found entry behind the paths found so far
scanEntriesAppended(e, entries, possiblePaths) ==
    LET found == SelectSeq(entries,
                     LAMBDA entry : /\ startsWith(entry, "circom2@")
                                    /\ existsSync(e.paths, candidatePath(entry)))
    IN possiblePaths \o [i \in 1..Len(found) |-> candidatePath(found[i])]

\* the loop of Circuit.ts:211-218: every matching entry whose cli.js exists is
\* put in front of the paths found so far
RECURSIVE scanEntries(_, _, _)
scanEntries(e, entries, possiblePaths) ==
    IF entries = <<>> THEN possiblePaths
    ELSE LET entry == Head(entries)
             found == /\ startsWith(entry, "circom2@")
                      /\ existsSync(e.paths, candidatePath(entry))
         IN scanEntries(e, Tail(entries),
                IF found THEN <<candidatePath(entry)>> \o possiblePaths
                ELSE possiblePaths)

\* a lookup that returns the first path of the list without looking at it
firstListed(e, possiblePaths) ==
    IF possiblePaths = <<>> THEN null ELSE Head(possiblePaths)

\* the first path of the list that exists, or null
RECURSIVE firstExisting(_, _)
firstExisting(e, possiblePaths) ==
    IF possiblePaths = <<>> THEN null
    ELSE IF existsSync(e.paths, Head(possiblePaths)) THEN Head(possiblePaths)
    ELSE firstExisting(e, Tail(possiblePaths))

\* Circuit.findCircom2; readdirSync of an unreadable store throws, and the
\* catch leaves the list as it was
findCircom2(e) ==
    LET base == <<topLevelCli, binAlias>>
        possiblePaths ==
            IF e.store = "ok" THEN scanEntries(e, e.listing, base)
            ELSE base
    IN firstExisting(e, possiblePaths)

\* relative(circuitsDir, circom2Path), circuitsDir = cwd/circuits
relative(path) == "../" \o SubSeq(path, Len(cwd) + 2, Len(path))

\* the executable spawned for the compiler (Circuit.ts:76-117)
circomExecutable(circom2Path) ==
    IF endsWith(circom2Path, "cli.js") THEN "node" ELSE relative(circom2Path)

pnpmPossiblePaths ==
    << join(join(join(cwd, "node_modules"), ".bin"), "pnpm"),
       "/usr/local/bin/pnpm",
       "/opt/homebrew/bin/pnpm" >>

\* Circuit.runCommand, lines 160-183: the executable run for "pnpm"
pnpmExecutable(e) ==
    IF e.platform = "win32" THEN "pnpm"
    ELSE LET found == firstExisting(e, pnpmPossiblePaths)
         IN IF found = null THEN "pnpm" ELSE found

\* the installations the pipeline is run under: nothing installed; a pnpm
\* store holding circom2; only the .bin alias, on Windows
PipelineEnvs ==
    { [platform |-> "linux", store |-> "missing", listing |-> <<>>, paths |-> {}],
      [platform |-> "linux", store |-> "ok",
       listing |-> <<"circom2@0.2.22", "snarkjs@0.7.5">>,
       paths |-> {candidatePath("circom2@0.2.22"), binAlias, pnpmPossiblePaths[1]}],
      [platform |-> "win32", store |-> "unreadable", listing |-> <<>>,
       paths |-> {binAlias}] }

----------------------------------------------------------------------------
(* External tools *)

\* spawnSync(...): { error, status }; status is null (here -1) on a spawn error
Results ==
    {[error |-> FALSE, status |-> s] : s \in 0..MaxStatus}
    \cup {[error |-> TRUE, status |-> -1]}

Succeeded(r) == ~r.error /\ r.status = 0

\* what each tool writes when it does its work
circomOutputs(n) == {wasmPath(n), r1csPath(n), symPath(n)}

\* what each tool needs in order to do its work
prepareInputs(s) == {ptauPath(s)}

setupInputs(n, s) == {r1csPath(n), ptauPreparedPath(s)}

NoFault == "<none>"

spawnErrorMessage(executable) == "spawn " \o executable \o " ENOENT"

notFoundMessage == "circom2 not found. Install it with: pnpm add -D circom2"

circomExitMessage(status) == "circom2 exited with code " \o ToString(status)

noWasmMessage == "Circuit compilation failed. Check errors above."

\* Circuit.ts:122-127
compilationError(message, n) ==
    "Circuit compilation error: " \o message \o ". "
    \o "Compile manually with: cd circuits && circom2 " \o n
    \o ".circom --r1cs --wasm --sym -o build"

\* Circuit.ts:195
commandExitMessage(command, status) ==
    "Command \"" \o command \o "\" exited with code " \o ToString(status)

----------------------------------------------------------------------------
(* State *)

Idle == [kind |-> "idle", name |-> "", size |-> 0, circom2Path |-> null,
         todo |-> {}]

NoCeremony == [seen |-> FALSE, raw |-> FALSE, prep |-> FALSE, base |-> 0]

NoLast == [res |-> "none", ops |-> <<>>]

NoFailure == <<"none", "<none>">>

NoParamRuns == [new |-> 0, prepare |-> 0]

NoScript == [res |-> "none", size |-> 0]

AllIdle == \A q \in Procs : pc[q] = "idle"

\* the artifact store may start in any state: no build directory, or the
\* build directory holding any subset of the artifacts
InitFrom(stores) ==
    /\ fs \in {{}} \cup {files \cup {buildDir} : files \in stores}
    /\ env \in PipelineEnvs
    /\ srcDirty = [n \in Names |-> FALSE]
    /\ pc = [p \in Procs |-> "idle"]
    /\ self = [p \in Procs |-> Idle]
    /\ ops = [p \in Procs |-> <<>>]
    /\ fault = [p \in Procs |-> NoFault]
    /\ fs0 = [p \in Procs |-> {}]
    /\ pt0 = [p \in Procs |-> NoCeremony]
    /\ last = [n \in Names |-> NoLast]
    /\ lastFault = NoFailure
    /\ runs = 0
    /\ paramRuns = NoParamRuns
    /\ lastScript = NoScript

\* generateProof calls that can be in progress together
CallIds == {1, 2}

NoInput == [a |-> "", b |-> ""]

NoProof == [pi_a |-> <<>>, pi_b |-> <<>>, pi_c |-> <<>>, protocol |-> "", curve |-> ""]

NoProofData == [proof |-> NoProof, publicSignals |-> <<>>]

NoOnchain == [proof |-> [a |-> <<>>, b |-> <<>>, c |-> <<>>], publicSignals |-> <<>>]

\* st is "none", "ok" (the promise resolved) or "throw" (it rejected with error)
NoResults == [st |-> "none", error |-> NoFault, offchain |-> NoProofData,
              onchain |-> NoOnchain]

NoCall == [st |-> "idle", input |-> NoInput, originalStderrWrite |-> <<>>,
           res |-> NoResults]

NoWrite == [st |-> "none", chunk |-> "", enc |-> "undefined", cb |-> "undefined",
            hooked |-> FALSE, dropped |-> FALSE, called |-> "none", ret |-> FALSE,
            origRet |-> FALSE]

NoVerify == [st |-> "none", proof |-> NoProof, publicSignals |-> <<>>,
             value |-> FALSE, error |-> NoFault]

\* no generateProof call in progress, process.stderr.write is the stream's own
ProofIdle ==
    /\ stderrWrite = <<>>
    /\ calls = [k \in CallIds |-> NoCall]
    /\ stderrIn = <<>>
    /\ stderrOut = <<>>
    /\ lastWrite = NoWrite
    /\ verified = NoVerify

TransformIdle ==
    /\ native = NoProofData
    /\ returned = NoResults

\* the zero address
NoAddress == "0x0000"

NoReceipt == [st |-> "none", reason |-> "", sender |-> NoAddress, pubSignals |-> <<>>,
              answer |-> "none", before |-> 0]

\* the Multiplier contract is not deployed
ContractIdle ==
    /\ verifier = NoAddress
    /\ shouldVerify = TRUE
    /\ logs = <<>>
    /\ receipt = NoReceipt

Init == InitFrom(InitialArtifacts) /\ ProofIdle /\ TransformIdle /\ ContractIdle

\* one external invocation, as recorded in ops
Invocation(op, n, target, executable, r) ==
    [op |-> op, name |-> n, target |-> target, exe |-> executable, res |-> r]

\* throw: the activity ends with the error
Throw(p, message) ==
    /\ fault' = [fault EXCEPT ![p] = message]
    /\ pc' = [pc EXCEPT ![p] = "done"]

----------------------------------------------------------------------------
(* new Circuit(circuitName) *)

\* a compile stage that also looks at the age of the source
needsCompileStale(files, n) == ~existsSync(files, wasmPath(n)) \/ srcDirty[n]

\* Circuit.ts:60
needsCompile(files, n) == ~existsSync(files, wasmPath(n))

\* a key stage that is never skipped, as in the batch script
needsZkeyAlways(files, n) == TRUE

\* a key stage that is never entered
needsZkeyNever(files, n) == FALSE

\* Circuit.ts:130
needsZkey(files, n) == ~existsSync(files, zkeyPath(n))

\* a ceremony stage that does not look for cached parameters
ceremonyEntryUncached(files, s) == "run_new"

\* a ceremony stage that starts over whenever the prepared file is missing
ceremonyEntryRegenerate(files, s) ==
    IF ~existsSync(files, ptauPreparedPath(s)) THEN "run_new" ELSE "run_setup"

\* a ceremony stage that goes straight to the key setup
ceremonyEntrySkipped(files, s) == "run_setup"

\* Circuit.ts:139-147: where the ceremony stage starts
ceremonyEntry(files, s) ==
    IF ~existsSync(files, ptauPreparedPath(s))
    THEN IF ~existsSync(files, ptauPath(s)) THEN "run_new" ELSE "run_prepare"
    ELSE "run_setup"

\* the locator's failure raised inside the try block of the compilation
locatorFaultWrapped(n) == compilationError(notFoundMessage, n)

\* Circuit.ts:67-71: thrown before the try block, so it is not wrapped
locatorFault(n) == notFoundMessage

\* Circuit.ts:91-96 and 111-116
circomFault(executable, r) ==
    IF r.error THEN spawnErrorMessage(executable)
    ELSE IF r.status # 0 THEN circomExitMessage(r.status)
    ELSE NoFault

\* a runner that does not look at the exit status
commandFaultNoStatus(executable, command, r) ==
    IF r.error THEN spawnErrorMessage(executable) ELSE NoFault

\* Circuit.runCommand, lines 185-196
commandFault(executable, command, r) ==
    IF r.error THEN spawnErrorMessage(executable)
    ELSE IF r.status # 0 THEN commandExitMessage(command, r.status)
    ELSE NoFault

\* the constructor, lines 44-56: the paths, the build directory, ensureCompiled
Construct(p, n) ==
    /\ pc[p] = "idle"
    /\ runs < MaxRuns
    /\ runs' = runs + 1
    /\ self' = [self EXCEPT ![p] = [Idle EXCEPT !.kind = "circuit", !.name = n,
                                                !.size = ptauSize]]
    /\ fs' = IF ~existsSync(fs, buildDir) THEN mkdirSync(fs, buildDir) ELSE fs
    /\ fs0' = [fs0 EXCEPT ![p] = fs]
    /\ ops' = [ops EXCEPT ![p] = <<>>]
    /\ fault' = [fault EXCEPT ![p] = NoFault]
    /\ pt0' = [pt0 EXCEPT ![p] = NoCeremony]
    /\ pc' = [pc EXCEPT ![p] = "chk_wasm"]
    /\ UNCHANGED <<env, srcDirty, last, lastFault, paramRuns, lastScript, proofSide>>

\* a witness generator check that waits while another process is compiling the
\* same circuit
CheckWasmLocked(p) ==
    /\ pc[p] = "chk_wasm"
    /\ \A q \in Procs \ {p} :
           ~(self[q].name = self[p].name /\ pc[q] = "run_circom")
    /\ IF needsCompile(fs, self[p].name)
       THEN LET circom2Path == findCircom2(env)
            IN IF circom2Path = null
               THEN /\ Throw(p, locatorFault(self[p].name))
                    /\ UNCHANGED self
               ELSE /\ self' = [self EXCEPT ![p].circom2Path = circom2Path]
                    /\ pc' = [pc EXCEPT ![p] = "run_circom"]
                    /\ UNCHANGED fault
       ELSE /\ pc' = [pc EXCEPT ![p] = "chk_zkey"]
            /\ UNCHANGED <<self, fault>>
    /\ UNCHANGED <<fs, env, srcDirty, ops, fs0, pt0, last, lastFault, runs,
                   paramRuns, lastScript, proofSide>>

\* ensureCompiled, lines 60-71: the witness generator check and the locator
CheckWasm(p) ==
    /\ pc[p] = "chk_wasm"
    /\ IF needsCompile(fs, self[p].name)
       THEN LET circom2Path == findCircom2(env)
            IN IF circom2Path = null
               THEN /\ Throw(p, locatorFault(self[p].name))
                    /\ UNCHANGED self
               ELSE /\ self' = [self EXCEPT ![p].circom2Path = circom2Path]
                    /\ pc' = [pc EXCEPT ![p] = "run_circom"]
                    /\ UNCHANGED fault
       ELSE /\ pc' = [pc EXCEPT ![p] = "chk_zkey"]
            /\ UNCHANGED <<self, fault>>
    /\ UNCHANGED <<fs, env, srcDirty, ops, fs0, pt0, last, lastFault, runs,
                   paramRuns, lastScript, proofSide>>

\* a compile stage that trusts the exit status and does not look for the
\* witness generator afterwards
RunCircomUnchecked(p) ==
    /\ pc[p] = "run_circom"
    /\ \E r \in Results, wrote \in BOOLEAN :
        LET n == self[p].name
            executable == circomExecutable(self[p].circom2Path)
            after == IF wrote THEN fs \cup circomOutputs(n) ELSE fs
            message == circomFault(executable, r)
        IN /\ wrote => Succeeded(r)
           /\ ops' = [ops EXCEPT ![p] =
                        Append(@, Invocation("circom2", n, wasmPath(n), executable, r))]
           /\ fs' = after
           /\ srcDirty' = IF wrote THEN [srcDirty EXCEPT ![n] = FALSE] ELSE srcDirty
           /\ IF message # NoFault
              THEN Throw(p, compilationError(message, n))
              ELSE /\ pc' = [pc EXCEPT ![p] = "chk_zkey"]
                   /\ UNCHANGED fault
    /\ UNCHANGED <<env, self, fs0, pt0, last, lastFault, runs, paramRuns, lastScript, proofSide>>

\* ensureCompiled, lines 73-127: the compiler runs to completion, then the
\* witness generator is checked again; every error is wrapped
RunCircom(p) ==
    /\ pc[p] = "run_circom"
    /\ \E r \in Results, wrote \in BOOLEAN :
        LET n == self[p].name
            executable == circomExecutable(self[p].circom2Path)
            after == IF wrote THEN fs \cup circomOutputs(n) ELSE fs
            message == circomFault(executable, r)
        IN /\ wrote => Succeeded(r)
           /\ ops' = [ops EXCEPT ![p] =
                        Append(@, Invocation("circom2", n, wasmPath(n), executable, r))]
           /\ fs' = after
           /\ srcDirty' = IF wrote THEN [srcDirty EXCEPT ![n] = FALSE] ELSE srcDirty
           /\ IF message # NoFault
              THEN Throw(p, compilationError(message, n))
              ELSE IF ~existsSync(after, wasmPath(n))
              THEN Throw(p, compilationError(noWasmMessage, n))
              ELSE /\ pc' = [pc EXCEPT ![p] = "chk_zkey"]
                   /\ UNCHANGED fault
    /\ UNCHANGED <<env, self, fs0, pt0, last, lastFault, runs, paramRuns, lastScript, proofSide>>

\* ensureCompiled, line 130
CheckZkey(p) ==
    /\ pc[p] = "chk_zkey"
    /\ pc' = [pc EXCEPT ![p] =
                IF needsZkey(fs, self[p].name) THEN "chk_ptau" ELSE "done"]
    /\ UNCHANGED <<fs, env, srcDirty, self, ops, fault, fs0, pt0, last,
                   lastFault, runs, paramRuns, lastScript, proofSide>>

\* ensureCompiled, lines 135-140
CheckPtau(p) ==
    /\ pc[p] = "chk_ptau"
    /\ pt0' = [pt0 EXCEPT ![p] =
                 [seen |-> TRUE,
                  raw |-> existsSync(fs, ptauPath(self[p].size)),
                  prep |-> existsSync(fs, ptauPreparedPath(self[p].size)),
                  base |-> Len(ops[p])]]
    /\ pc' = [pc EXCEPT ![p] = ceremonyEntry(fs, self[p].size)]
    /\ UNCHANGED <<fs, env, srcDirty, self, ops, fault, fs0, last, lastFault,
                   runs, paramRuns, lastScript, proofSide>>

\* a runner that tries a failed operation a second time
RunSnarkjsRetry(p, op, inputs, output, next, executable) ==
    \E r \in Results :
        LET message == commandFault(executable, "pnpm", r)
            again == /\ message # NoFault
                     /\ \A i \in 1..Len(ops[p]) : ops[p][i].op # op
        IN /\ Succeeded(r) => inputs \subseteq fs
           /\ ops' = [ops EXCEPT ![p] =
                        Append(@, Invocation(op, self[p].name, output, executable, r))]
           /\ fs' = IF Succeeded(r) THEN fs \cup {output} ELSE fs
           /\ IF message # NoFault /\ ~again
              THEN Throw(p, message)
              ELSE /\ pc' = [pc EXCEPT ![p] = IF again THEN pc[p] ELSE next]
                   /\ UNCHANGED fault

\* runCommand("pnpm", [...]) for one snarkjs operation: the tool can exit
\* with status 0 only if its inputs exist, and has then written its output
RunSnarkjs(p, op, inputs, output, next, executable) ==
    \E r \in Results :
        LET message == commandFault(executable, "pnpm", r)
        IN /\ Succeeded(r) => inputs \subseteq fs
           /\ ops' = [ops EXCEPT ![p] =
                        Append(@, Invocation(op, self[p].name, output, executable, r))]
           /\ fs' = IF Succeeded(r) THEN fs \cup {output} ELSE fs
           /\ IF message # NoFault
              THEN Throw(p, message)
              ELSE /\ pc' = [pc EXCEPT ![p] = next]
                   /\ UNCHANGED fault

\* ensureCompiled, lines 141-142: powersoftau new
RunNew(p) ==
    /\ pc[p] = "run_new"
    /\ RunSnarkjs(p, "new", {}, ptauPath(self[p].size), "run_prepare",
                  pnpmExecutable(env))
    /\ paramRuns' = [paramRuns EXCEPT !.new = @ + 1]
    /\ UNCHANGED <<env, srcDirty, self, fs0, pt0, last, lastFault, runs, lastScript, proofSide>>

\* ensureCompiled, lines 145-146: powersoftau prepare phase2
RunPrepare(p) ==
    /\ pc[p] = "run_prepare"
    /\ RunSnarkjs(p, "prepare", prepareInputs(self[p].size),
                  ptauPreparedPath(self[p].size), "run_setup", pnpmExecutable(env))
    /\ paramRuns' = [paramRuns EXCEPT !.prepare = @ + 1]
    /\ UNCHANGED <<env, srcDirty, self, fs0, pt0, last, lastFault, runs, lastScript, proofSide>>

\* ensureCompiled, lines 149-153: groth16 setup
RunSetup(p) ==
    /\ pc[p] = "run_setup"
    /\ RunSnarkjs(p, "setup", setupInputs(self[p].name, self[p].size),
                  zkeyPath(self[p].name), "done", pnpmExecutable(env))
    /\ UNCHANGED <<env, srcDirty, self, fs0, pt0, last, lastFault, runs,
                   paramRuns, lastScript, proofSide>>

\* the stage a finished construction failed in
failedStage(p) ==
    IF fault[p] = NoFault THEN "none"
    ELSE IF ops[p] = <<>> THEN "locate"
    ELSE ops[p][Len(ops[p])].op

\* the constructor returns, or its error reaches the caller
Return(p) ==
    /\ pc[p] = "done"
    /\ self[p].kind = "circuit"
    /\ last' = [last EXCEPT ![self[p].name] =
                  [res |-> IF fault[p] = NoFault THEN "ok" ELSE "fail",
                   ops |-> [i \in 1..Len(ops[p]) |-> ops[p][i].op]]]
    /\ lastFault' = IF fault[p] = NoFault THEN lastFault
                    ELSE <<failedStage(p), fault[p]>>
    /\ paramRuns' = IF fault[p] = NoFault THEN paramRuns ELSE NoParamRuns
    /\ pc' = [pc EXCEPT ![p] = "idle"]
    /\ self' = [self EXCEPT ![p] = Idle]
    /\ ops' = [ops EXCEPT ![p] = <<>>]
    /\ fault' = [fault EXCEPT ![p] = NoFault]
    /\ fs0' = [fs0 EXCEPT ![p] = {}]
    /\ pt0' = [pt0 EXCEPT ![p] = NoCeremony]
    /\ UNCHANGED <<fs, env, srcDirty, runs, lastScript, proofSide>>

----------------------------------------------------------------------------
(* The batch script, compile-circuits.ts *)

\* readdirSync(CIRCUITS_DIR).filter(f => f.endsWith(".circom")): every circuit
\* has its source file
circuitFiles == Names

\* main, lines 172-197: the mode, the build directory, the circuit files
RunScript(p, isProd) ==
    /\ pc[p] = "idle"
    /\ runs < MaxRuns
    /\ runs' = runs + 1
    /\ self' = [self EXCEPT ![p] = [Idle EXCEPT !.kind = "script",
                                                !.size = PTAU_SIZE(isProd),
                                                !.todo = circuitFiles]]
    /\ fs' = IF ~existsSync(fs, buildDir) THEN mkdirSync(fs, buildDir) ELSE fs
    /\ fs0' = [fs0 EXCEPT ![p] = fs]
    /\ ops' = [ops EXCEPT ![p] = <<>>]
    /\ fault' = [fault EXCEPT ![p] = NoFault]
    /\ pt0' = [pt0 EXCEPT ![p] = NoCeremony]
    /\ pc' = [pc EXCEPT ![p] = IF circuitFiles = {} THEN "done" ELSE "s_compile"]
    /\ UNCHANGED <<env, srcDirty, last, lastFault, paramRuns, lastScript, proofSide>>

\* a compile step of the script that leaves a circuit alone when its witness
\* generator exists
ScriptCompileGated(p) ==
    /\ pc[p] = "s_compile"
    /\ \E n \in self[p].todo :
        LET circom2Path == findCircom2(env)
        IN /\ self' = [self EXCEPT ![p].name = n, ![p].todo = @ \ {n},
                                   ![p].circom2Path = circom2Path]
           /\ IF existsSync(fs, wasmPath(n))
              THEN /\ pc' = [pc EXCEPT ![p] = "s_chk_ptau"]
                   /\ UNCHANGED <<fs, srcDirty, ops, fault>>
              ELSE IF circom2Path = null
              THEN /\ Throw(p, notFoundMessage)
                   /\ UNCHANGED <<fs, srcDirty, ops>>
              ELSE \E r \in Results, wrote \in BOOLEAN :
                    LET executable == circomExecutable(circom2Path)
                        message == circomFault(executable, r)
                    IN /\ wrote => Succeeded(r)
                       /\ ops' = [ops EXCEPT ![p] =
                                    Append(@, Invocation("circom2", n, wasmPath(n),
                                                         executable, r))]
                       /\ fs' = IF wrote THEN fs \cup circomOutputs(n) ELSE fs
                       /\ srcDirty' = IF wrote THEN [srcDirty EXCEPT ![n] = FALSE]
                                      ELSE srcDirty
                       /\ IF message # NoFault
                          THEN Throw(p, message)
                          ELSE /\ pc' = [pc EXCEPT ![p] = "s_chk_ptau"]
                               /\ UNCHANGED fault
    /\ UNCHANGED <<env, fs0, pt0, last, lastFault, runs, paramRuns, lastScript, proofSide>>

\* the next file of the loop of main (line 200) and compileCircuit, lines
\* 92-141: the compiler is run whatever exists, and its output is not checked
ScriptCompile(p) ==
    /\ pc[p] = "s_compile"
    /\ \E n \in self[p].todo :
        LET circom2Path == findCircom2(env)
        IN /\ self' = [self EXCEPT ![p].name = n, ![p].todo = @ \ {n},
                                   ![p].circom2Path = circom2Path]
           /\ IF circom2Path = null
              THEN /\ Throw(p, notFoundMessage)
                   /\ UNCHANGED <<fs, srcDirty, ops>>
              ELSE \E r \in Results, wrote \in BOOLEAN :
                    LET executable == circomExecutable(circom2Path)
                        message == circomFault(executable, r)
                    IN /\ wrote => Succeeded(r)
                       /\ ops' = [ops EXCEPT ![p] =
                                    Append(@, Invocation("circom2", n, wasmPath(n),
                                                         executable, r))]
                       /\ fs' = IF wrote THEN fs \cup circomOutputs(n) ELSE fs
                       /\ srcDirty' = IF wrote THEN [srcDirty EXCEPT ![n] = FALSE]
                                      ELSE srcDirty
                       /\ IF message # NoFault
                          THEN Throw(p, message)
                          ELSE /\ pc' = [pc EXCEPT ![p] = "s_chk_ptau"]
                               /\ UNCHANGED fault
    /\ UNCHANGED <<env, fs0, pt0, last, lastFault, runs, paramRuns, lastScript, proofSide>>

\* a ceremony stage that regenerates the parameters on every run
scriptCeremonyEntryRegenerate(files, s) == "s_new"

\* generateTrustedSetup, lines 152-164: where the ceremony stage starts
scriptCeremonyEntry(files, s) ==
    IF ~existsSync(files, ptauPreparedPath(s))
    THEN IF ~existsSync(files, ptauPath(s)) THEN "s_new" ELSE "s_prepare"
    ELSE "s_setup"

\* generateTrustedSetup, lines 147-153
ScriptCheckPtau(p) ==
    /\ pc[p] = "s_chk_ptau"
    /\ pt0' = [pt0 EXCEPT ![p] =
                 [seen |-> TRUE,
                  raw |-> existsSync(fs, ptauPath(self[p].size)),
                  prep |-> existsSync(fs, ptauPreparedPath(self[p].size)),
                  base |-> Len(ops[p])]]
    /\ pc' = [pc EXCEPT ![p] = scriptCeremonyEntry(fs, self[p].size)]
    /\ UNCHANGED <<fs, env, srcDirty, self, ops, fault, fs0, last, lastFault,
                   runs, paramRuns, lastScript, proofSide>>

\* generateTrustedSetup, line 159
ScriptNew(p) ==
    /\ pc[p] = "s_new"
    /\ RunSnarkjs(p, "new", {}, ptauPath(self[p].size), "s_prepare", "pnpm")
    /\ UNCHANGED <<env, srcDirty, self, fs0, pt0, last, lastFault, runs,
                   paramRuns, lastScript, proofSide>>

\* generateTrustedSetup, line 163
ScriptPrepare(p) ==
    /\ pc[p] = "s_prepare"
    /\ RunSnarkjs(p, "prepare", prepareInputs(self[p].size),
                  ptauPreparedPath(self[p].size), "s_setup", "pnpm")
    /\ UNCHANGED <<env, srcDirty, self, fs0, pt0, last, lastFault, runs,
                   paramRuns, lastScript, proofSide>>

\* generateTrustedSetup, line 167, and the loop of main going on
ScriptSetup(p) ==
    /\ pc[p] = "s_setup"
    /\ RunSnarkjs(p, "setup", setupInputs(self[p].name, self[p].size),
                  zkeyPath(self[p].name),
                  IF self[p].todo = {} THEN "done" ELSE "s_compile", "pnpm")
    /\ UNCHANGED <<env, srcDirty, self, fs0, pt0, last, lastFault, runs,
                   paramRuns, lastScript, proofSide>>

\* main returns, or process.exit(1) after an error (lines 206-209)
ScriptExit(p) ==
    /\ pc[p] = "done"
    /\ self[p].kind = "script"
    /\ pc' = [pc EXCEPT ![p] = "idle"]
    /\ self' = [self EXCEPT ![p] = Idle]
    /\ ops' = [ops EXCEPT ![p] = <<>>]
    /\ fault' = [fault EXCEPT ![p] = NoFault]
    /\ fs0' = [fs0 EXCEPT ![p] = {}]
    /\ pt0' = [pt0 EXCEPT ![p] = NoCeremony]
    /\ lastScript' = [res |-> IF fault[p] = NoFault THEN "ok" ELSE "fail",
                      size |-> self[p].size]
    /\ UNCHANGED <<fs, env, srcDirty, last, lastFault, runs, paramRuns, proofSide>>

----------------------------------------------------------------------------
(* The environment between activities *)

\* clean-circuits.ts: the build directory is removed with everything in it
Clean ==
    /\ AllIdle
    /\ existsSync(fs, buildDir)
    /\ fs' = {}
    /\ last' = [n \in Names |-> NoLast]
    /\ paramRuns' = NoParamRuns
    /\ lastScript' = NoScript
    /\ UNCHANGED <<env, srcDirty, pc, self, ops, fault, fs0, pt0, lastFault,
                   runs, proofSide>>

\* the circuit source is edited after a construction; no artifact is touched
EditSource(n) ==
    /\ AllIdle
    /\ ~srcDirty[n]
    /\ last[n].res # "none"
    /\ srcDirty' = [srcDirty EXCEPT ![n] = TRUE]
    /\ UNCHANGED <<fs, env, pc, self, ops, fault, fs0, pt0, last, lastFault,
                   runs, paramRuns, lastScript, proofSide>>

----------------------------------------------------------------------------
(* Specification: one activity at a time *)

PipelineStep(p) ==
    \/ CheckWasm(p)
    \/ RunCircom(p)
    \/ CheckZkey(p)
    \/ CheckPtau(p)
    \/ RunNew(p)
    \/ RunPrepare(p)
    \/ RunSetup(p)
    \/ Return(p)

ScriptStep(p) ==
    \/ ScriptCompile(p)
    \/ ScriptCheckPtau(p)
    \/ ScriptNew(p)
    \/ ScriptPrepare(p)
    \/ ScriptSetup(p)
    \/ ScriptExit(p)

Next ==
    \/ \E n \in Names : AllIdle /\ Construct(1, n)
    \/ PipelineStep(1)
    \/ Clean
    \/ \E n \in Names : EditSource(n)

Spec == Init /\ [][Next]_vars

----------------------------------------------------------------------------
(* Specification: constructions and runs of the batch script, one at a time *)

\* the stores the batch behaviours start from: any subset of the parameter
\* files, with the circuits either not built or built
BatchArtifacts ==
    {a \cup c :
        a \in {{}, UNION {{wasmPath(n), r1csPath(n), zkeyPath(n)} : n \in Names}},
        c \in SUBSET UNION {{ptauPath(s), ptauPreparedPath(s)} : s \in PtauSizes}}

InitBatch == InitFrom(BatchArtifacts) /\ ProofIdle /\ TransformIdle /\ ContractIdle

NextBatch ==
    \/ \E n \in Names : AllIdle /\ Construct(1, n)
    \/ PipelineStep(1)
    \/ \E isProd \in BOOLEAN : AllIdle /\ RunScript(1, isProd)
    \/ ScriptStep(1)
    \/ Clean

SpecBatch == InitBatch /\ [][NextBatch]_vars

----------------------------------------------------------------------------
(* Properties of the construction *)

ExternalOps == {"circom2", "new", "prepare", "setup"}

\* the constructions in progress or just finished
Constructing == {p \in Procs : self[p].kind = "circuit"}

Returned(p) == pc[p] = "done" /\ self[p].kind = "circuit" /\ fault[p] = NoFault

Threw(p) == pc[p] = "done" /\ self[p].kind = "circuit" /\ fault[p] # NoFault

\* the operations invoked so far, by name
opNames(p) == [i \in 1..Len(ops[p]) |-> ops[p][i].op]

Count(seq, x) == Cardinality({i \in 1..Len(seq) : seq[i] = x})

Invoked(p, op) == \E i \in 1..Len(ops[p]) : ops[p][i].op = op

\* C1: once a construction for a circuit has returned and nothing was removed
\* since, a further construction for it invokes no external operation, and
\* over the two constructions each external operation ran at most once.
IdempotentConstruction ==
    \A p \in Constructing :
        last[self[p].name].res = "ok" =>
            /\ ops[p] = <<>>
            /\ \A op \in ExternalOps :
                   Count(last[self[p].name].ops, op) + Count(opNames(p), op) <= 1

\* a second construction has returned after a first one that ran all four
\* operations
IdempotentConstructionWitness ==
    \E p \in Constructing :
        /\ Returned(p)
        /\ last[self[p].name].res = "ok"
        /\ last[self[p].name].ops = <<"circom2", "new", "prepare", "setup">>

ConstructionEnsuresParameters ==
    \A p \in Constructing :
        Returned(p) => ptauPreparedPath(ptauSize) \in fs

\* C3 amended: the parameter stage is part of the key stage.  The prepared
\* parameter file exists whenever the key setup is reached and whenever a
\* construction that found the key missing returns; a construction that finds
\* the key present never looks at the parameters.
ParametersEnsuredForKeyStage ==
    \A p \in Constructing :
        /\ pc[p] = "run_setup" => ptauPreparedPath(ptauSize) \in fs
        /\ (Returned(p) /\ zkeyPath(self[p].name) \notin fs0[p])
               => ptauPreparedPath(ptauSize) \in fs
        /\ zkeyPath(self[p].name) \in fs0[p]
               => ~pt0[p].seen /\ ~Invoked(p, "new") /\ ~Invoked(p, "prepare")

\* the key setup is reached after both parameter operations ran
ParametersEnsuredWitness ==
    \E p \in Constructing :
        /\ pc[p] = "run_setup"
        /\ ptauPreparedPath(ptauSize) \notin fs0[p]
        /\ Invoked(p, "new")
        /\ Invoked(p, "prepare")

Rank(op) ==
    CASE op = "circom2" -> 1
      [] op = "new" -> 2
      [] op = "prepare" -> 3
      [] op = "setup" -> 4

\* C4: within one construction the invocations are in the order compile,
\* powersoftau new, prepare phase2, groth16 setup, none of them twice, and
\* every invocation but the last one has exited with status 0.
StrictStageOrder ==
    \A p \in Constructing :
        /\ \A i, j \in 1..Len(ops[p]) :
               i < j => Rank(ops[p][i].op) < Rank(ops[p][j].op)
        /\ \A i \in 1..Len(ops[p]) :
               i < Len(ops[p]) => Succeeded(ops[p][i].res)

\* the four operations have run, one after the other
StrictStageOrderWitness ==
    \E p \in Constructing :
        opNames(p) = <<"circom2", "new", "prepare", "setup">>

\* the output file of each stage
StageOutput(op, n) ==
    CASE op = "circom2" -> wasmPath(n)
      [] op = "new" -> ptauPath(ptauSize)
      [] op = "prepare" -> ptauPreparedPath(ptauSize)
      [] op = "setup" -> zkeyPath(n)

StageOrder == <<"circom2", "new", "prepare", "setup">>

\* the first stage, in stage order, for which `missing` holds
FirstStage(missing(_)) ==
    LET idx == {i \in 1..Len(StageOrder) : missing(StageOrder[i])}
    IN IF idx = {} THEN "none"
       ELSE StageOrder[CHOOSE i \in idx : \A j \in idx : i <= j]

\* the previous construction for the circuit of p failed in an external stage
\* and nothing was removed since
Retrying(p) ==
    /\ last[self[p].name].res = "fail"
    /\ last[self[p].name].ops # <<>>

\* every tool the construction of p has needed did its work
ToolsSucceeded(p) ==
    /\ wasmPath(self[p].name) \notin fs0[p] => findCircom2(env) # null
    /\ \A i \in 1..Len(ops[p]) :
           /\ Succeeded(ops[p][i].res)
           /\ ops[p][i].target \in fs

\* what a retried construction does, given which stages count as missing
Recovers(p, missing(_)) ==
    /\ ops[p] # <<>> => ops[p][1].op = FirstStage(missing)
    /\ \A i \in 1..Len(ops[p]) :
           StageOutput(ops[p][i].op, self[p].name) \notin fs0[p]
    /\ (pc[p] = "done" /\ ToolsSucceeded(p))
           => Returned(p) /\ zkeyPath(self[p].name) \in fs

\* C5 as stated: a construction that follows a failed one starts at the first
\* stage whose output file is missing, runs no stage whose output is present,
\* and returns with the key in place when the tools succeed.
RecoveryStartsAtFirstMissingOutput ==
    \A p \in Constructing :
        Retrying(p) =>
            LET missing(op) == StageOutput(op, self[p].name) \notin fs0[p]
            IN Recovers(p, missing)

\* C5 amended: the same, where the raw parameter file counts as missing only
\* when the prepared parameter file is missing too.
RecoveryStartsAtFirstNeededStage ==
    \A p \in Constructing :
        Retrying(p) =>
            LET missing(op) ==
                    /\ StageOutput(op, self[p].name) \notin fs0[p]
                    /\ op = "new" => ptauPreparedPath(ptauSize) \notin fs0[p]
            IN Recovers(p, missing)

\* a construction that failed in prepare phase2 is retried, resumes there and
\* returns
RecoveryWitness ==
    \E p \in Constructing :
        /\ Returned(p)
        /\ Retrying(p)
        /\ last[self[p].name].ops = <<"circom2", "new", "prepare">>
        /\ opNames(p) = <<"prepare", "setup">>

\* C6: an invocation that ends with a spawn error or a non-zero status is the
\* last one of its construction, which throws; no operation is invoked twice
\* in one construction.
FailFastAttemptOnce ==
    \A p \in Constructing :
        /\ \A i \in 1..Len(ops[p]) :
               ~Succeeded(ops[p][i].res) => i = Len(ops[p]) /\ Threw(p)
        /\ \A i, j \in 1..Len(ops[p]) :
               i # j => ops[p][i].op # ops[p][j].op

\* a construction has thrown after its third invocation could not be spawned
FailFastWitness ==
    \E p \in Constructing :
        /\ Threw(p)
        /\ Len(ops[p]) = 3
        /\ ops[p][3].res.error

IsToolchainNotFound(message) == startsWith(message, "circom2 not found")

IsCompilationError(message) == startsWith(message, "Circuit compilation error: ")

\* C7: with the witness generator missing and no compiler found, the
\* construction throws the toolchain-not-found error, which is not a
\* compilation error, and invokes nothing; a compiler that was found and
\* exits non-zero gives a compilation error.
MissingToolchainIsDistinct ==
    \A p \in Constructing :
        /\ (/\ pc[p] # "chk_wasm"
            /\ wasmPath(self[p].name) \notin fs0[p]
            /\ findCircom2(env) = null)
               => /\ Threw(p)
                  /\ IsToolchainNotFound(fault[p])
                  /\ ~IsCompilationError(fault[p])
                  /\ ops[p] = <<>>
        /\ (/\ ops[p] # <<>>
            /\ ops[p][1].op = "circom2"
            /\ ~ops[p][1].res.error
            /\ ops[p][1].res.status # 0)
               => /\ Threw(p)
                  /\ IsCompilationError(fault[p])
                  /\ ~IsToolchainNotFound(fault[p])

\* a construction has thrown because no compiler was found
MissingToolchainWitness ==
    \E p \in Constructing :
        /\ Threw(p)
        /\ wasmPath(self[p].name) \notin fs0[p]
        /\ findCircom2(env) = null
        /\ IsToolchainNotFound(fault[p])

\* the error kind of each failing stage
StageKind(stage) ==
    CASE stage = "locate" -> "ToolchainNotFound"
      [] stage = "circom2" -> "CompilationRejected"
      [] stage \in {"new", "prepare"} -> "CeremonyFailure"
      [] stage = "setup" -> "KeySetupFailure"
      [] OTHER -> "none"

\* C8: the error thrown by a failed construction tells the failing stage:
\* two constructions that failed in stages of different kinds threw
\* different errors.
FaultIdentifiesStage ==
    \A p \in Constructing :
        (/\ Threw(p)
         /\ lastFault # NoFailure
         /\ StageKind(failedStage(p)) # StageKind(lastFault[1]))
            => fault[p] # lastFault[2]

\* the construction of p has decided whether to compile
PastCompileDecision(p) == pc[p] \notin {"chk_wasm", "run_circom"}

\* C9 as stated: the compiler is invoked exactly when the witness generator
\* is missing, and groth16 setup exactly when the key is missing and the run
\* gets there; an edited source alone causes no invocation.
GatingByExistenceAlone ==
    \A p \in Constructing :
        /\ PastCompileDecision(p)
               => (Invoked(p, "circom2") <=> wasmPath(self[p].name) \notin fs0[p])
        /\ Invoked(p, "setup") => zkeyPath(self[p].name) \notin fs0[p]
        /\ (Returned(p) /\ zkeyPath(self[p].name) \notin fs0[p])
               => Invoked(p, "setup")
        /\ (last[self[p].name].res = "ok" /\ srcDirty[self[p].name])
               => ops[p] = <<>>

\* C9 amended: the compiler is invoked exactly when the witness generator is
\* missing and the locator finds a compiler; the rest as stated.
GatingByExistenceAndLocator ==
    \A p \in Constructing :
        /\ PastCompileDecision(p)
               => (Invoked(p, "circom2")
                     <=> /\ wasmPath(self[p].name) \notin fs0[p]
                         /\ findCircom2(env) # null)
        /\ Invoked(p, "setup") => zkeyPath(self[p].name) \notin fs0[p]
        /\ (Returned(p) /\ zkeyPath(self[p].name) \notin fs0[p])
               => Invoked(p, "setup")
        /\ (last[self[p].name].res = "ok" /\ srcDirty[self[p].name])
               => ops[p] = <<>>

\* the source was edited after a construction; the next one returns without
\* having invoked anything
GatingWitness ==
    \E p \in Constructing :
        /\ Returned(p)
        /\ last[self[p].name].res = "ok"
        /\ last[self[p].name].ops # <<>>
        /\ srcDirty[self[p].name]
        /\ ops[p] = <<>>

\* the ceremony stages entered so far, in constructions and script runs
InCeremony == {p \in Procs : pt0[p].seen}

\* the operation was invoked since the ceremony stage was entered
InvokedInCeremony(p, op) ==
    \E i \in (pt0[p].base + 1)..Len(ops[p]) : ops[p][i].op = op

\* the ceremony stage is about to invoke prepare phase2, or has done so
PrepareDue(p) ==
    \/ pc[p] \in {"run_prepare", "s_prepare"}
    \/ InvokedInCeremony(p, "prepare")

\* C10: in the ceremony stage of the constructor and of the batch script,
\* with the prepared file present neither powersoftau new nor prepare phase2
\* is invoked; with only the raw file present prepare phase2 is invoked and
\* powersoftau new is not; powersoftau new is invoked only when both files
\* are missing.
ParameterReuse ==
    \A p \in InCeremony :
        /\ pt0[p].prep
               => ~InvokedInCeremony(p, "new") /\ ~InvokedInCeremony(p, "prepare")
        /\ (~pt0[p].prep /\ pt0[p].raw)
               => ~InvokedInCeremony(p, "new") /\ PrepareDue(p)
        /\ InvokedInCeremony(p, "new") => ~pt0[p].raw /\ ~pt0[p].prep

\* the batch script found only the raw file and has run prepare phase2
ParameterReuseWitness ==
    \E p \in InCeremony :
        /\ self[p].kind = "script"
        /\ pt0[p].raw
        /\ ~pt0[p].prep
        /\ InvokedInCeremony(p, "prepare")
        /\ ~InvokedInCeremony(p, "new")

----------------------------------------------------------------------------
(* Properties of the parameter cache across circuits *)

\* C11: over any sequence of successful constructions, for any circuit names
\* and with no artifact deleted, powersoftau new and powersoftau prepare
\* phase2 are each invoked at most once in total.
ParametersCachedOnce ==
    /\ paramRuns.new <= 1
    /\ paramRuns.prepare <= 1

\* a construction for one circuit has returned having run the key setup on
\* the parameters that the construction for the other circuit generated
ParametersCachedOnceWitness ==
    \E p \in Constructing :
        /\ Returned(p)
        /\ opNames(p) = <<"circom2", "setup">>
        /\ paramRuns = [new |-> 1, prepare |-> 1]
        /\ \E n \in Names \ {self[p].name} :
               /\ last[n].res = "ok"
               /\ last[n].ops = <<"circom2", "new", "prepare", "setup">>

----------------------------------------------------------------------------
(* Specification: two processes construct at the same time, without a lock *)

\* the stores the concurrent behaviours start from: any subset of the outputs
\* of the compiler and of the key setup for the first circuit, and of the
\* parameter files of the constructor's size
RaceArtifacts ==
    {a \cup c :
        a \in {{}, {wasmPath("multiplier2"), r1csPath("multiplier2")},
               {wasmPath("multiplier2"), r1csPath("multiplier2"),
                zkeyPath("multiplier2")}},
        c \in SUBSET {ptauPath(ptauSize), ptauPreparedPath(ptauSize)}}

InitRace == InitFrom(RaceArtifacts) /\ ProofIdle /\ TransformIdle /\ ContractIdle

\* one construction per process: the process ends when its constructor has
\* returned or thrown
RaceStep(p) ==
    \/ CheckWasm(p)
    \/ RunCircom(p)
    \/ CheckZkey(p)
    \/ CheckPtau(p)
    \/ RunNew(p)
    \/ RunPrepare(p)
    \/ RunSetup(p)

NextRace ==
    \/ \E p \in Procs, n \in Names : Construct(p, n)
    \/ \E p \in Procs : RaceStep(p)

SpecRace == InitRace /\ [][NextRace]_vars

----------------------------------------------------------------------------
(* Properties of concurrent constructions *)

\* the paths that the external operations invoked by process p were to generate
targets(p) == {ops[p][i].target : i \in 1..Len(ops[p])}

\* C12: two constructions for different circuit names that run at the same
\* time never both invoke an external operation that generates the same
\* path: they share no file that both write.
IndependentAcrossNames ==
    \A p, q \in Constructing :
        self[p].name # self[q].name => targets(p) \cap targets(q) = {}

\* where the other process stands while p is about to generate, or is
\* generating, the output of the given stage
Generating(p, stage) ==
    IF stage = "compile" THEN pc[p] = "run_circom"
    ELSE pc[p] \in {"chk_ptau", "run_new", "run_prepare", "run_setup"}

\* C13: the existence check and the generation are not atomic.  While one
\* process has seen an artifact missing and has not yet generated it, the
\* existence check of a second process constructing the same circuit is not
\* held back and sends that process to the generating stage as well; and when
\* both stand before the compiler or before the key setup, either may invoke it.
CheckThenGenerateNotAtomic ==
    \A p, q \in Constructing :
        (p # q /\ self[p].name = self[q].name) =>
            /\ (/\ Generating(p, "compile")
                /\ pc[q] = "chk_wasm"
                /\ ~existsSync(fs, wasmPath(self[q].name)))
               => ENABLED (CheckWasm(q) /\ pc'[q] = "run_circom")
            /\ (/\ Generating(p, "key")
                /\ pc[q] = "chk_zkey"
                /\ ~existsSync(fs, zkeyPath(self[q].name)))
               => ENABLED (CheckZkey(q) /\ pc'[q] = "chk_ptau")
            /\ (pc[p] = "run_circom" /\ pc[q] = "run_circom")
               => ENABLED RunCircom(p) /\ ENABLED RunCircom(q)
            /\ (pc[p] = "run_setup" /\ pc[q] = "run_setup")
               => ENABLED RunSetup(p) /\ ENABLED RunSetup(q)

\* two processes constructing the same circuit both started without its
\* witness generator and its key, and both have invoked the compiler and the
\* key setup for the same two files
SameNameRaceWitness ==
    \E p, q \in Constructing :
        /\ p # q
        /\ self[p].name = self[q].name
        /\ ~existsSync(fs0[p], wasmPath(self[p].name))
        /\ ~existsSync(fs0[q], zkeyPath(self[q].name))
        /\ \A r \in {p, q} :
               {wasmPath(self[p].name), zkeyPath(self[p].name)} \subseteq targets(r)

----------------------------------------------------------------------------
(* The proving system: the multiplier circuit and snarkjs *)

\* the order of the field the circuit computes in, scaled down
FieldPrime == 2039

\* generateProof({ a: "3", b: "11" }): the signals are decimal strings, of
\* values anywhere in the field
CircuitInputs ==
    {[a |-> ToString(x), b |-> ToString(y)] :
        x \in {0, 3, FieldPrime - 1}, y \in {11, FieldPrime - 1}}

\* the value of a decimal digit
digit(c) == CHOOSE d \in 0..9 : ToString(d) = c

\* the value of a decimal string
RECURSIVE parseDecimal(_)
parseDecimal(str) ==
    IF str = "" THEN 0
    ELSE parseDecimal(SubSeq(str, 1, Len(str) - 1)) * 10
         + digit(SubSeq(str, Len(str), Len(str)))

\* a decimal string read as a field element
fieldElement(str) == parseDecimal(str) % FieldPrime

\* a circuit that adds its inputs
Adder2(input) ==
    (fieldElement(input.a) + fieldElement(input.b)) % FieldPrime

\* multiplier2.circom: c <== a*b, in the field
Multiplier2(input) ==
    (fieldElement(input.a) * fieldElement(input.b)) % FieldPrime

enoent(path) == "ENOENT: no such file or directory, open '" \o path \o "'"

\* the verification key held by the key file of circuit n
exportVerificationKey(n) == "vk(" \o n \o ")"

RECURSIVE joined(_)
joined(signals) ==
    IF signals = <<>> THEN "" ELSE Head(signals) \o "," \o joined(Tail(signals))

\* Groth16: for a key and given first two proof elements, the public signals
\* fix the third proof element (the pairing equation)
pairingElement(vkey, publicSignals) == "C(" \o vkey \o ";" \o joined(publicSignals) \o ")"

\* groth16.fullProve(input, wasmPath, zkeyPath): the witness generator and the
\* key are read from the store; the proof has three projective elements
fullProve(input, n, files) ==
    IF ~existsSync(files, wasmPath(n))
    THEN [st |-> "throw", error |-> enoent(wasmPath(n)), proof |-> NoProof,
          publicSignals |-> <<>>]
    ELSE IF ~existsSync(files, zkeyPath(n))
    THEN [st |-> "throw", error |-> enoent(zkeyPath(n)), proof |-> NoProof,
          publicSignals |-> <<>>]
    ELSE LET publicSignals == <<ToString(Multiplier2(input))>>
         IN [st |-> "ok", error |-> NoFault,
             proof |-> [pi_a |-> <<"ax", "ay", "1">>,
                        pi_b |-> <<<<"bx0", "bx1">>, <<"by0", "by1">>, <<"1", "0">>>>,
                        pi_c |-> <<pairingElement(exportVerificationKey(n),
                                                  publicSignals), "cy", "1">>,
                        protocol |-> "groth16", curve |-> "bn128"],
             publicSignals |-> publicSignals]

\* a verifier that looks at the proof and not at the public signals
verifyProofOnly(vkey, publicSignals, proof) ==
    /\ Len(proof.pi_a) = 3
    /\ Len(proof.pi_b) = 3
    /\ Len(proof.pi_c) = 3

\* groth16.verify(vkey, publicSignals, proof)
verify(vkey, publicSignals, proof) ==
    /\ Len(proof.pi_a) = 3
    /\ Len(proof.pi_b) = 3
    /\ Len(proof.pi_c) = 3
    /\ proof.pi_c[1] = pairingElement(vkey, publicSignals)

----------------------------------------------------------------------------
(* generateProof: the stderr filter *)

\* msg.includes(sub)
includes(msg, sub) ==
    \E i \in 1..(Len(msg) - Len(sub) + 1) : SubSeq(msg, i, i + Len(sub) - 1) = sub

\* a filter that drops every chunk holding one of the two phrases
suppressedEither(msg) ==
    includes(msg, "Could not allocate") \/ includes(msg, "severe instability")

\* Circuit.ts:238
suppressed(msg) ==
    includes(msg, "Could not allocate") /\ includes(msg, "severe instability")

\* process.stderr.write(chunk, enc, cb) when the given filters wrap the
\* stream's own writer (lines 236-243): a filter either drops the chunk, calls
\* the callback and returns true, or hands the call on to the writer it wraps;
\* the stream's own writer takes the chunk and the callback and returns origRet
RECURSIVE write(_, _, _, _, _)
write(writer, chunk, enc, cb, origRet) ==
    IF writer = <<>>
    THEN [dropped |-> FALSE, called |-> "stream", ret |-> origRet]
    ELSE IF suppressed(chunk)
    THEN [dropped |-> TRUE,
          called |-> IF enc = "function" THEN "enc"
                     ELSE IF cb = "function" THEN "cb" ELSE "none",
          ret |-> TRUE]
    ELSE write(Tail(writer), chunk, enc, cb, origRet)

----------------------------------------------------------------------------
(* generateProof: the two proof formats *)

undefined == "undefined"

TypeError == "TypeError"

\* seq[i], with the index counted from 0
at(seq, i) == IF i < Len(seq) THEN seq[i + 1] ELSE undefined

\* rows[i][j]: reading an element of a missing row throws
at2(rows, i, j) == IF i < Len(rows) THEN at(rows[i + 1], j) ELSE TypeError

\* x.toString() for an element of a proof: a string is its own string form,
\* undefined has no method
toString(x) == IF x \in {undefined, TypeError} THEN TypeError ELSE x

\* seq.map(x => x.toString())
strings(seq) == [i \in 1..Len(seq) |-> toString(seq[i])]

\* an adapter that exchanges the rows of B and keeps the coordinates in place
onchainProofRowsExchanged(proof) ==
    [a |-> <<at(proof.pi_a, 0), at(proof.pi_a, 1)>>,
     b |-> <<<<at2(proof.pi_b, 1, 0), at2(proof.pi_b, 1, 1)>>,
             <<at2(proof.pi_b, 0, 0), at2(proof.pi_b, 0, 1)>>>>,
     c |-> <<at(proof.pi_c, 0), at(proof.pi_c, 1)>>]

\* an adapter that hands on every native element of A, B and C
onchainProofWhole(proof) ==
    [a |-> proof.pi_a,
     b |-> [i \in 1..Len(proof.pi_b) |-> <<at2(proof.pi_b, i - 1, 1),
                                           at2(proof.pi_b, i - 1, 0)>>],
     c |-> proof.pi_c]

\* Circuit.ts:253-260
onchainProof(proof) ==
    [a |-> <<at(proof.pi_a, 0), at(proof.pi_a, 1)>>,
     b |-> <<<<at2(proof.pi_b, 0, 1), at2(proof.pi_b, 0, 0)>>,
             <<at2(proof.pi_b, 1, 1), at2(proof.pi_b, 1, 0)>>>>,
     c |-> <<at(proof.pi_c, 0), at(proof.pi_c, 1)>>]

\* the on-chain proof as strings, lines 264-268
onchainStrings(oc) ==
    [a |-> strings(oc.a),
     b |-> [i \in 1..Len(oc.b) |-> strings(oc.b[i])],
     c |-> strings(oc.c)]

\* a TypeError was raised while the on-chain proof was built
raised(strs) ==
    \/ \E i \in 1..Len(strs.a) : strs.a[i] = TypeError
    \/ \E i \in 1..Len(strs.b) : \E j \in 1..Len(strs.b[i]) : strs.b[i][j] = TypeError
    \/ \E i \in 1..Len(strs.c) : strs.c[i] = TypeError

\* a return value whose on-chain half has lost the public signals
proofResultsSignalsDropped(full) ==
    LET strs == onchainStrings(onchainProof(full.proof))
    IN IF raised(strs)
       THEN [NoResults EXCEPT !.st = "throw", !.error = TypeError]
       ELSE [st |-> "ok", error |-> NoFault,
             offchain |-> [proof |-> full.proof, publicSignals |-> full.publicSignals],
             onchain |-> [proof |-> strs, publicSignals |-> <<>>]]

\* generateProof, lines 253-272: what is made of the value fullProve resolved
proofResults(full) ==
    LET strs == onchainStrings(onchainProof(full.proof))
    IN IF raised(strs)
       THEN [NoResults EXCEPT !.st = "throw", !.error = TypeError]
       ELSE [st |-> "ok", error |-> NoFault,
             offchain |-> [proof |-> full.proof, publicSignals |-> full.publicSignals],
             onchain |-> [proof |-> strs, publicSignals |-> full.publicSignals]]

----------------------------------------------------------------------------
(* generateProof and verifyProof *)

\* the longest sequence of chunks written to stderr in one behaviour
MaxWrites == 2

\* the circuit of the Circuit object the proof operations are called on
circuitName == "multiplier2"

pipelineSide == <<fs, env, srcDirty, pc, self, ops, fault, fs0, pt0, last, lastFault,
                  paramRuns, lastScript>>

\* generateProof, lines 233-249: the writer in place is saved, the filter is
\* installed, and the call waits for groth16.fullProve
GenerateProof(k, input) ==
    /\ calls[k].st # "pending"
    /\ runs < MaxRuns
    /\ runs' = runs + 1
    /\ calls' = [calls EXCEPT ![k] = [st |-> "pending", input |-> input,
                                      originalStderrWrite |-> stderrWrite,
                                      res |-> NoResults]]
    /\ stderrWrite' = <<k>> \o stderrWrite
    /\ UNCHANGED <<pipelineSide, stderrIn, stderrOut, lastWrite, verified, native,
                   returned, contractSide>>

\* a generateProof that builds what it finds missing before it proves
FullProveSettleRebuild(k) ==
    /\ calls[k].st = "pending"
    /\ LET built == fs \cup {buildDir, wasmPath(circuitName), zkeyPath(circuitName)}
           full == fullProve(calls[k].input, circuitName, built)
       IN /\ fs' = built
          /\ calls' = [calls EXCEPT ![k].st = "settled", ![k].res = proofResults(full)]
    /\ stderrWrite' = calls[k].originalStderrWrite
    /\ UNCHANGED <<env, srcDirty, pc, self, ops, fault, fs0, pt0, last, lastFault,
                   paramRuns, lastScript, runs, stderrIn, stderrOut, lastWrite, verified, native,
                   returned, contractSide>>

\* generateProof, lines 249-275: groth16.fullProve settles; its value is turned
\* into the two formats, or its error goes to the caller; on both ways the
\* saved writer is put back (finally)
FullProveSettle(k) ==
    /\ calls[k].st = "pending"
    /\ LET full == fullProve(calls[k].input, circuitName, fs)
       IN calls' = [calls EXCEPT
                      ![k].st = "settled",
                      ![k].res = IF full.st = "throw"
                                 THEN [NoResults EXCEPT !.st = "throw",
                                                        !.error = full.error]
                                 ELSE proofResults(full)]
    /\ stderrWrite' = calls[k].originalStderrWrite
    /\ UNCHANGED <<pipelineSide, runs, stderrIn, stderrOut, lastWrite, verified,
                   native, returned, contractSide>>

\* verifyProof, lines 278-281: the verification key is read from the key file
VerifyProof(proof, publicSignals) ==
    /\ verified' =
         IF ~existsSync(fs, zkeyPath(circuitName))
         THEN [st |-> "throw", proof |-> proof, publicSignals |-> publicSignals,
               value |-> FALSE, error |-> enoent(zkeyPath(circuitName))]
         ELSE [st |-> "ok", proof |-> proof, publicSignals |-> publicSignals,
               value |-> verify(exportVerificationKey(circuitName), publicSignals,
                                proof),
               error |-> NoFault]
    /\ UNCHANGED <<pipelineSide, runs, stderrWrite, calls, stderrIn, stderrOut,
                   lastWrite, native, returned, contractSide>>

\* the texts written to stderr while a proof is computed
StderrChunks ==
    {"wasm: Could not allocate memory, severe instability may follow",
     "Could not allocate memory",
     "severe instability",
     "Error: Assert Failed"}

\* the ways process.stderr.write is called: (chunk), (chunk, cb),
\* (chunk, encoding) and (chunk, encoding, cb)
WriteArgs ==
    {<<"undefined", "undefined">>, <<"function", "undefined">>,
     <<"utf8", "undefined">>, <<"utf8", "function">>}

\* process.stderr.write(chunk, enc, cb), by the prover or by anyone else
StderrWrite(chunk, enc, cb) ==
    /\ Len(stderrIn) < MaxWrites
    /\ \E origRet \in BOOLEAN :
        LET out == write(stderrWrite, chunk, enc, cb, origRet)
        IN /\ stderrIn' = Append(stderrIn, [chunk |-> chunk,
                                            hooked |-> stderrWrite # <<>>])
           /\ stderrOut' = IF out.dropped THEN stderrOut ELSE Append(stderrOut, chunk)
           /\ lastWrite' = [st |-> "done", chunk |-> chunk, enc |-> enc, cb |-> cb,
                            hooked |-> stderrWrite # <<>>, dropped |-> out.dropped,
                            called |-> out.called, ret |-> out.ret,
                            origRet |-> origRet]
    /\ UNCHANGED <<pipelineSide, runs, stderrWrite, calls, verified, native, returned, contractSide>>

\* the stores the proof operations are called in: the Circuit object was
\* constructed earlier, and any of its artifacts may have been removed since
ProofArtifacts ==
    SUBSET {wasmPath(circuitName), r1csPath(circuitName), zkeyPath(circuitName)}

\* an installation the construction succeeds in
ProofEnv == CHOOSE e \in PipelineEnvs : findCircom2(e) # null

InitProof ==
    /\ InitFrom(ProofArtifacts)
    /\ env = ProofEnv
    /\ ProofIdle
    /\ TransformIdle /\ ContractIdle

\* public-signal lists a caller puts in the place of the returned ones
CorruptedSignals == {<<"7">>, <<"33">>, <<>>, <<"33", "7">>}

\* the (proof, publicSignals) pairs given to verifyProof: a proof returned by
\* generateProof, with the signals returned with it or with other ones
VerifyArgs ==
    UNION {{<<calls[k].res.offchain.proof, signals>> :
               signals \in {calls[k].res.offchain.publicSignals} \cup CorruptedSignals} :
           k \in {c \in CallIds : calls[c].res.st = "ok"}}

NextProof ==
    \/ \E k \in CallIds, input \in CircuitInputs : GenerateProof(k, input)
    \/ \E k \in CallIds : FullProveSettle(k)
    \/ \E args \in VerifyArgs : VerifyProof(args[1], args[2])
    \/ Clean

SpecProof == InitProof /\ [][NextProof]_vars

\* the input of the first test
TestInput == [a |-> "3", b |-> "11"]

InitStderr ==
    /\ InitFrom({{wasmPath(circuitName), r1csPath(circuitName), zkeyPath(circuitName)}})
    /\ existsSync(fs, buildDir)
    /\ env = ProofEnv
    /\ ProofIdle
    /\ TransformIdle /\ ContractIdle

NextStderr ==
    \/ \E k \in CallIds : GenerateProof(k, TestInput)
    \/ \E k \in CallIds : FullProveSettle(k)
    \/ \E chunk \in StderrChunks, args \in WriteArgs : StderrWrite(chunk, args[1], args[2])

SpecStderr == InitStderr /\ [][NextStderr]_vars

----------------------------------------------------------------------------
(* Properties of the proof operations *)

ProofFiles == {wasmPath(circuitName), zkeyPath(circuitName)}

\* C14: generateProof and verifyProof invoke no external tool and create,
\* change or delete no file, whatever the store holds; when the witness
\* generator or the key was removed after the construction, generateProof
\* throws, and verifyProof throws when the key is gone, and the file stays
\* missing.
ProofOperationsNeverBuild ==
    [][(calls' # calls \/ verified' # verified) =>
          /\ fs' = fs
          /\ ops' = ops
          /\ pc' = pc
          /\ \A k \in CallIds :
                (/\ calls[k].st = "pending"
                 /\ calls'[k].st = "settled"
                 /\ ~(ProofFiles \subseteq fs))
                => calls'[k].res.st = "throw"
          /\ (verified' # verified /\ ~existsSync(fs, zkeyPath(circuitName)))
             => verified'.st = "throw"]_vars

\* after the build directory was cleaned, a generateProof call and a
\* verifyProof call have thrown and the store is still empty
ProofOperationsNeverBuildWitness ==
    /\ fs = {}
    /\ verified.st = "throw"
    /\ \E k \in CallIds : calls[k].st = "settled" /\ calls[k].res.st = "throw"


\* C15: the stderr filter of a generateProof call is installed only from the
\* start of that call to its settlement: a filter found in
\* process.stderr.write belongs to a call that has not settled yet, and once
\* every call has settled, by returning or by throwing, the writer is again
\* the one that was in place before (no filter is left).
StderrFilterScoped ==
    /\ \A i \in 1..Len(stderrWrite) : calls[stderrWrite[i]].st = "pending"
    /\ (\A k \in CallIds : calls[k].st # "pending") => stderrWrite = <<>>


\* the text is the memory warning: it holds both phrases
IsMemoryWarning(text) ==
    includes(text, "Could not allocate") /\ includes(text, "severe instability")

\* a written chunk that has to reach the stream
Genuine(w) == ~(w.hooked /\ IsMemoryWarning(w.chunk))

\* C16: while a filter is installed, a chunk written to stderr is dropped if
\* and only if its text holds both 'Could not allocate' and 'severe
\* instability'; a dropped chunk has its callback called and true returned;
\* every other chunk goes unchanged to the original writer, whose result is
\* returned, and the chunks reach the stream in the order they were written.
FilterDropsOnlyMemoryWarnings ==
    /\ (lastWrite.st = "done" /\ lastWrite.hooked) =>
          /\ lastWrite.dropped <=> IsMemoryWarning(lastWrite.chunk)
          /\ lastWrite.dropped =>
                /\ lastWrite.ret = TRUE
                /\ lastWrite.called =
                      IF lastWrite.enc = "function" THEN "enc"
                      ELSE IF lastWrite.cb = "function" THEN "cb" ELSE "none"
          /\ ~lastWrite.dropped =>
                /\ lastWrite.ret = lastWrite.origRet
                /\ lastWrite.called = "stream"
                /\ stderrOut # <<>>
                /\ stderrOut[Len(stderrOut)] = lastWrite.chunk
    /\ LET genuine == SelectSeq(stderrIn, Genuine)
       IN stderrOut = [i \in 1..Len(genuine) |-> genuine[i].chunk]

\* with a filter installed, a genuine error was written and reached the
\* stream, then the memory warning was written with a callback: it was
\* dropped and the callback called
FilterDropsOnlyMemoryWarningsWitness ==
    /\ Len(stderrIn) = 2
    /\ stderrIn[1].hooked
    /\ stderrOut = <<"Error: Assert Failed">>
    /\ lastWrite.hooked
    /\ lastWrite.dropped
    /\ lastWrite.called = "cb"
    /\ lastWrite.ret

----------------------------------------------------------------------------
(* Specification: the two formats, for any value groth16.fullProve resolves *)

\* the longest pi_a and pi_c drawn
MaxLen == 3

\* the sequences over S of length up to n
Seqs(S, n) == UNION {[1..m -> S] : m \in 0..n}

\* proof elements, as decimal strings
Elems == {"1", "2"}

\* the rows pi_b is drawn from
Rows == {<<>>, <<"1">>, <<"1", "2">>, <<"2", "1">>}

\* snarkjs resolves a proof of three elements with rows of two; the adapter
\* is applied to proofs of every shape up to that, and longer pi_a and pi_c
NativeProofs ==
    [pi_a : Seqs(Elems, MaxLen), pi_b : Seqs(Rows, 3), pi_c : Seqs(Elems, MaxLen),
     protocol : {"groth16"}, curve : {"bn128"}]

NativeSignals == {<<>>, <<"33">>, <<"33", "7">>}

InitTransform ==
    /\ InitFrom({})
    /\ env = ProofEnv
    /\ ProofIdle
    /\ native \in [proof : NativeProofs, publicSignals : NativeSignals]
    /\ returned = NoResults
    /\ ContractIdle

\* generateProof, lines 251-272, on the resolved value
ToOnchain ==
    /\ returned.st = "none"
    /\ returned' = proofResults(native)
    /\ UNCHANGED <<pipelineSide, runs, stderrWrite, calls, stderrIn, stderrOut,
                   lastWrite, verified, native, contractSide>>

NextTransform == ToOnchain

SpecTransform == InitTransform /\ [][NextTransform]_vars

----------------------------------------------------------------------------
(* Properties of the two formats *)

\* C17: the on-chain proof is made of the native proof alone: a is
\* (pi_a[0], pi_a[1]), c is (pi_c[0], pi_c[1]) and row i of b is
\* (pi_b[i][1], pi_b[i][0]) for i = 0, 1: A and C keep the order of their
\* coordinates, the two coordinates of each row of B are exchanged, the rows
\* stay in place.
OnchainTransform ==
    returned.st = "ok" =>
        LET p == native.proof
            o == returned.onchain.proof
        IN /\ o.a = <<p.pi_a[1], p.pi_a[2]>>
           /\ o.c = <<p.pi_c[1], p.pi_c[2]>>
           /\ o.b = <<<<p.pi_b[1][2], p.pi_b[1][1]>>, <<p.pi_b[2][2], p.pi_b[2][1]>>>>

\* a proof whose two rows of B differ, and whose coordinates differ, was
\* adapted
OnchainTransformWitness ==
    /\ returned.st = "ok"
    /\ native.proof.pi_a = <<"1", "2", "1">>
    /\ native.proof.pi_b = <<<<"1", "2">>, <<"2", "1">>, <<"1">>>>
    /\ native.proof.pi_c = <<"2", "1", "1">>
    /\ returned.onchain.proof.b = <<<<"2", "1">>, <<"1", "2">>>>

\* C18: whenever generateProof returns, the on-chain a and c have exactly two
\* elements and b has exactly two rows of exactly two elements, whatever the
\* lengths of the native pi_a, pi_b and pi_c.
OnchainShape ==
    returned.st = "ok" =>
        LET o == returned.onchain.proof
        IN /\ Len(o.a) = 2
           /\ Len(o.c) = 2
           /\ Len(o.b) = 2
           /\ \A i \in 1..Len(o.b) : Len(o.b[i]) = 2

\* a native proof of three elements each, as snarkjs resolves it, was adapted
OnchainShapeWitness ==
    /\ returned.st = "ok"
    /\ Len(native.proof.pi_a) = 3
    /\ Len(native.proof.pi_b) = 3
    /\ Len(native.proof.pi_c) = 3

\* C19: whenever generateProof returns, the public signals of the on-chain
\* format are those of the off-chain format, element for element and in the
\* same order, and the off-chain proof is the native proof as resolved.
BothFormatsSameSignals ==
    returned.st = "ok" =>
        /\ returned.offchain.proof = native.proof
        /\ returned.offchain.publicSignals = native.publicSignals
        /\ Len(returned.onchain.publicSignals) = Len(returned.offchain.publicSignals)
        /\ \A i \in 1..Len(returned.offchain.publicSignals) :
               returned.onchain.publicSignals[i] = returned.offchain.publicSignals[i]

\* a value with two different public signals was returned in both formats
BothFormatsSameSignalsWitness ==
    /\ returned.st = "ok"
    /\ returned.offchain.publicSignals = <<"33", "7">>
    /\ returned.onchain.publicSignals = <<"33", "7">>

----------------------------------------------------------------------------
(* Properties of the multiplier circuit *)

\* the generateProof calls that have returned
ReturnedCalls == {k \in CallIds : calls[k].res.st = "ok"}

\* the product of the two inputs of call k, as integers
Product(k) == fieldElement(calls[k].input.a) * fieldElement(calls[k].input.b)

----------------------------------------------------------------------------
(* Properties of the verification *)

----------------------------------------------------------------------------
(* Specification: the locator, for any installation *)

\* the entries the store directory can hold
StoreEntries == {"circom2@0.2.22", "circom2@0.2.23", "snarkjs@0.7.5"}

\* readdirSync(pnpmDir): the entries of the store, each once, in any order
Listings ==
    {l \in Seqs(StoreEntries, Cardinality(StoreEntries)) :
        \A i, j \in 1..Len(l) : l[i] = l[j] => i = j}

\* the files a lookup can come across
LocatorFiles == {candidatePath(entry) : entry \in StoreEntries} \cup {topLevelCli, binAlias}

\* the installations: no store directory (then nothing is in it), a store
\* that can be listed (the files in it are in listed entries), or a store
\* that exists and cannot be listed; any of the files may exist
LocatorEnvs ==
    {e \in [platform : {"linux"}, store : {"missing", "ok", "unreadable"},
            listing : Listings, paths : SUBSET LocatorFiles] :
        /\ e.store # "ok" => e.listing = <<>>
        /\ \A entry \in StoreEntries :
               existsSync(e.paths, candidatePath(entry)) =>
                   /\ e.store # "missing"
                   /\ e.store = "ok" => \E i \in 1..Len(e.listing) : e.listing[i] = entry}

\* a build directory without artifacts, or no build directory
InitLocator ==
    /\ fs \in {{}, {buildDir}}
    /\ env \in LocatorEnvs
    /\ srcDirty = [n \in Names |-> FALSE]
    /\ pc = [p \in Procs |-> "idle"]
    /\ self = [p \in Procs |-> Idle]
    /\ ops = [p \in Procs |-> <<>>]
    /\ fault = [p \in Procs |-> NoFault]
    /\ fs0 = [p \in Procs |-> {}]
    /\ pt0 = [p \in Procs |-> NoCeremony]
    /\ last = [n \in Names |-> NoLast]
    /\ lastFault = NoFailure
    /\ runs = 0
    /\ paramRuns = NoParamRuns
    /\ lastScript = NoScript
    /\ ProofIdle
    /\ TransformIdle /\ ContractIdle

\* the constructor up to the lookup, and the script up to the first compiler run
NextLocator ==
    \/ \E n \in Names : AllIdle /\ Construct(1, n)
    \/ CheckWasm(1)
    \/ \E isProd \in BOOLEAN : AllIdle /\ RunScript(1, isProd)
    \/ ScriptCompile(1)

SpecLocator == InitLocator /\ [][NextLocator]_vars

----------------------------------------------------------------------------
(* Properties of the locator *)

\* the processes whose activity has called findCircom2
LookedUp == {p \in Procs : pc[p] \in {"run_circom", "s_chk_ptau", "done"}}

\* the store entries the lookup goes through: none if the store is missing or
\* cannot be listed
Scanned == IF env.store = "ok" THEN env.listing ELSE <<>>

IsMatch(entry) ==
    /\ startsWith(entry, "circom2@")
    /\ existsSync(env.paths, candidatePath(entry))

\* the candidate paths of a lookup
Candidates ==
    {candidatePath(Scanned[i]) : i \in {j \in 1..Len(Scanned) : IsMatch(Scanned[j])}}
    \cup {topLevelCli, binAlias}

\* C22: findCircom2 returns a path only if a file exists at that path, and
\* returns null exactly when no candidate path exists; a store directory that
\* is missing or cannot be listed counts as no match and does not make the
\* lookup throw; a lookup that finds nothing has run nothing and created
\* nothing.
LocatorSound ==
    \A p \in LookedUp :
        LET found == self[p].circom2Path
        IN /\ found # null => found \in Candidates /\ existsSync(env.paths, found)
           /\ found = null <=> \A path \in Candidates : ~existsSync(env.paths, path)
           /\ found = null =>
                 /\ fault[p] = notFoundMessage
                 /\ ops[p] = <<>>
                 /\ fs = mkdirSync(fs0[p], buildDir)

\* a lookup in an installation whose store cannot be listed has returned the
\* alias, and one in an installation with nothing but an unlisted file in the
\* store has returned null
LocatorSoundWitness ==
    \E p \in LookedUp :
        /\ env.store = "unreadable"
        /\ existsSync(env.paths, candidatePath("circom2@0.2.22"))
        /\ existsSync(env.paths, binAlias)
        /\ ~existsSync(env.paths, topLevelCli)
        /\ self[p].circom2Path = binAlias

\* the matching entries of the listing, in the order of the listing
Matches == SelectSeq(Scanned, IsMatch)

\* C23: findCircom2 returns the first existing path in the order: the cli.js
\* of a store entry named circom2@..., the last listed one if there are
\* several; then node_modules/circom2/cli.js; then node_modules/.bin/circom2.
LocatorPriority ==
    \A p \in LookedUp :
        self[p].circom2Path =
            IF Matches # <<>> THEN candidatePath(Matches[Len(Matches)])
            ELSE IF existsSync(env.paths, topLevelCli) THEN topLevelCli
            ELSE IF existsSync(env.paths, binAlias) THEN binAlias
            ELSE null

\* with two circom2 entries in the store, the top-level cli.js and the alias
\* all present, the lookup has returned the entry that is listed last
LocatorPriorityWitness ==
    \E p \in LookedUp :
        /\ env.listing = <<"circom2@0.2.23", "snarkjs@0.7.5", "circom2@0.2.22">>
        /\ {candidatePath("circom2@0.2.22"), candidatePath("circom2@0.2.23"),
            topLevelCli, binAlias} \subseteq env.paths
        /\ self[p].circom2Path = candidatePath("circom2@0.2.22")

----------------------------------------------------------------------------
(* The Multiplier contract *)

MaxLogs == 2
MaxSignals == 2

MockVerifierAddress == "0xM0CC"

\* the accounts that call the contract; the second is the test contract
Callers == {"0xA11CE", "0x7E57"}

\* an address without code, and the deployed MockVerifier
VerifierAddresses == {"0xE0A", MockVerifierAddress}

\* uint[2] pA, uint[2][2] pB, uint[2] pC of the tests
ZeroProof == [pA |-> <<0, 0>>, pB |-> <<<<0, 0>>, <<0, 0>>>>, pC |-> <<0, 0>>]

\* uint[] _pubSignals: any length from 0
PubSignals == Seqs({42, 100}, MaxSignals)

\* MockVerifier.verifyProof: the arguments are ignored
verifyProof(_pA, _pB, _pC, _pubSignals) == shouldVerify

\* MockVerifier.setVerifyResult
setVerifyResult(_result) ==
    /\ shouldVerify' = _result
    /\ UNCHANGED <<pipelineSide, runs, stderrWrite, calls, stderrIn, stderrOut,
                   lastWrite, verified, native, returned, verifier, logs, receipt>>

\* Multiplier.check: a call to an address without code reverts; require
\* reverts with its message when the verifier answers false; reading
\* _pubSignals[0] of an empty array reverts with the out-of-bounds panic; a
\* revert leaves the log as it was
check(sender, _pA, _pB, _pC, _pubSignals) ==
    /\ Len(logs) < MaxLogs
    /\ LET called == verifier = MockVerifierAddress
           ok == called /\ verifyProof(_pA, _pB, _pC, _pubSignals)
           answer == IF ~called THEN "none" ELSE IF ok THEN "true" ELSE "false"
           reverted(reason) ==
               [st |-> "revert", reason |-> reason, sender |-> sender,
                pubSignals |-> _pubSignals, answer |-> answer, before |-> Len(logs)]
       IN IF ~called
          THEN receipt' = reverted("") /\ logs' = logs
          ELSE IF ~ok
          THEN receipt' = reverted("invalid proof") /\ logs' = logs
          ELSE IF Len(_pubSignals) = 0
          THEN receipt' = reverted("Panic(0x32)") /\ logs' = logs
          ELSE /\ logs' = Append(logs, [resultC |-> _pubSignals[1], caller |-> sender])
               /\ receipt' = [st |-> "ok", reason |-> "", sender |-> sender,
                              pubSignals |-> _pubSignals, answer |-> answer,
                              before |-> Len(logs)]
    /\ UNCHANGED <<pipelineSide, runs, stderrWrite, calls, stderrIn, stderrOut,
                   lastWrite, verified, native, returned, verifier, shouldVerify>>

\* after setUp and the constructor: the MockVerifier is deployed and answers
\* true, the Multiplier stores the address it was given
InitContract ==
    /\ InitFrom({})
    /\ env = ProofEnv
    /\ ProofIdle
    /\ TransformIdle
    /\ verifier \in VerifierAddresses
    /\ shouldVerify = TRUE
    /\ logs = <<>>
    /\ receipt = NoReceipt

NextContract ==
    \/ \E _result \in BOOLEAN : setVerifyResult(_result)
    \/ \E sender \in Callers, _pubSignals \in PubSignals :
           check(sender, ZeroProof.pA, ZeroProof.pB, ZeroProof.pC, _pubSignals)

SpecContract == InitContract /\ [][NextContract]_vars

----------------------------------------------------------------------------
(* Properties of the contract *)

\* C24: a call of check whose verifier answers false reverts with "invalid
\* proof" and emits nothing; a call whose verifier answers true emits exactly
\* one Verified event with _pubSignals[0] and the caller, and returns true;
\* no step changes the stored verifier address.
ConsumerGate ==
    [][/\ verifier' = verifier
       /\ receipt' # receipt =>
             /\ receipt'.answer = "false" =>
                    /\ receipt'.st = "revert"
                    /\ receipt'.reason = "invalid proof"
                    /\ logs' = logs
             /\ receipt'.answer = "true" =>
                    /\ receipt'.st = "ok"
                    /\ Len(receipt'.pubSignals) > 0
                    /\ logs' = Append(logs, [resultC |-> receipt'.pubSignals[1],
                                             caller |-> receipt'.sender])]_vars

----------------------------------------------------------------------------
(* Properties of the compile stage and of the key setup *)

\* the constructions whose compiler run exited with status 0 and left no
\* witness generator
CompiledNothing ==
    {p \in Constructing :
        /\ \E i \in 1..Len(ops[p]) :
               ops[p][i].op = "circom2" /\ Succeeded(ops[p][i].res)
        /\ ~existsSync(fs, wasmPath(self[p].name))}

\* C25: a construction whose compiler exited with status 0 without leaving the
\* witness generator has thrown the compilation error, and has invoked neither
\* powersoftau new, nor prepare phase2, nor groth16 setup.
PostCompileCheck ==
    \A p \in CompiledNothing :
        /\ pc[p] = "done"
        /\ fault[p] = compilationError(noWasmMessage, self[p].name)
        /\ \A i \in 1..Len(ops[p]) : ops[p][i].op = "circom2"

\* the compiler has exited with status 0, the witness generator is absent and
\* the key is absent too, so that a ceremony would have been due
PostCompileCheckWitness ==
    \E p \in CompiledNothing :
        /\ pc[p] = "done"
        /\ ~existsSync(fs, zkeyPath(self[p].name))
        /\ ~existsSync(fs, ptauPreparedPath(self[p].size))


\* the runs of the batch script in progress or just finished
ScriptRuns == {p \in Procs : self[p].kind = "script"}

\* the circuit files the loop of the run is through with
Through(p) ==
    {n \in circuitFiles \ self[p].todo :
        \/ n # self[p].name
        \/ pc[p] = "s_compile"
        \/ pc[p] = "done" /\ fault[p] = NoFault}

\* the operations the run has invoked for one circuit, by name
opsFor(p, n) ==
    LET mine == SelectSeq(ops[p], LAMBDA o : o.name = n)
    IN [i \in 1..Len(mine) |-> mine[i].op]

\* the ceremony stage of the run has come to the key setup
ReachedSetup(p) == pc[p] = "s_setup" \/ InvokedInCeremony(p, "setup")

SetupHasInput ==
    \A p \in Constructing :
        Invoked(p, "setup") => existsSync(fs, r1csPath(self[p].name))

----------------------------------------------------------------------------
(* Properties of overlapping proof generation *)

\* call k started while the filter of call j was the stderr writer
StartedDuring(k, j) ==
    /\ j # k
    /\ calls[k].originalStderrWrite # <<>>
    /\ Head(calls[k].originalStderrWrite) = j

\* C28: when two generateProof calls overlap, the second starting before the
\* first has settled, then once both have settled process.stderr.write is the
\* writer that was in place before the first call started, and no filter is
\* installed.
OverlapRestoresWriter ==
    \A j, k \in CallIds :
        (/\ StartedDuring(k, j)
         /\ calls[j].st = "settled"
         /\ calls[k].st = "settled")
        => /\ stderrWrite = calls[j].originalStderrWrite
           /\ stderrWrite = <<>>

====
